---- MODULE Spec2Model ----
(***************************************************************************)
(* Model of adbee's discovery-driven pairing/connection orchestrator      *)
(* (src/src/adb_service.py): AdbService, AdbPairingListener and           *)
(* AdbConnectListener, the discovery facility they register browsers      *)
(* with, and the external adb tool they shell out to.                     *)
(*                                                                         *)
(* Threads: the caller's thread runs generate_credentials/start/stop; the *)
(* discovery facility's delivery thread runs the listeners' add_service.  *)
(* The delivery thread is suspended at every subprocess.run and every     *)
(* time.sleep, which are the points where the caller's thread interleaves.*)
(***************************************************************************)
EXTENDS Integers, Sequences, FiniteSets, TLC

----------------------------------------------------------------------------
(* Bounds of the model *)

\* number of start() calls that get past the adb check (instance ids 1..MaxStarts)
MaxStarts == 2

\* number of connect-type events in succession, of one listener and for one
\* endpoint, that the history covers
MaxEvents == 2

\* how many of the lowest values of the random source are drawn, besides the highest
SampleEdge == 1

----------------------------------------------------------------------------
(* Program constants *)

RandBelowBound == 900000
CodeBase == 100000
ConnectMaxRetries == 3
OppMaxRetries == 3
ConnectSleep == 2
OppSleep == 1
PairTimeout == 30
ConnectTimeout == 5

PAIRING_SERVICE_TYPE == "_adb-tls-pairing._tcp.local."
CONNECT_SERVICE_TYPE == "_adb-tls-connect._tcp.local."

ServiceLabel == "adbee"

----------------------------------------------------------------------------
(* Pure functions *)

DigitChar == <<"0", "1", "2", "3", "4", "5", "6", "7", "8", "9">>

\* str(n) for n >= 0: the decimal digits, most significant first
RECURSIVE Str(_)
Str(n) ==
    IF n < 10 THEN <<DigitChar[n + 1]>>
    ELSE Append(Str(n \div 10), DigitChar[(n % 10) + 1])

\* int(s) for a sequence of decimal digit characters
RECURSIVE IntOf(_)
IntOf(s) ==
    IF s = <<>> THEN 0
    ELSE 10 * IntOf(SubSeq(s, 1, Len(s) - 1))
         + (CHOOSE d \in 0..9 : DigitChar[d + 1] = s[Len(s)])

\* the values secrets.randbelow(n) is taken from: every value of 0..n-1 is
\* possible; the model draws the SampleEdge lowest of them and the highest
RandBelow(n) == {r \in (0..(SampleEdge - 1)) \cup {n - 1} : r >= 0 /\ r < n}

\* the draw turned into a string without the offset
MakeCode_NoOffset(r) == Str(r)

\* the pairing code generate_credentials computes from a draw r
MakeCode(r) == Str(r + CodeBase)

\* None where a ServiceInfo is expected, and where an (ip, port) pair is expected
NoInfo == [addrs |-> <<>>, port |-> 0]
NoEndpoint == [ip |-> "", port |-> 0]

\* IPv4/IPv6 addresses an announcement may carry
Addr4 == [fam |-> 4, text |-> "192.168.1.50"]
Addr6 == [fam |-> 6, text |-> "fe80::1"]

\* ipaddress.exploded
Exploded(a) ==
    IF a.fam = 4 THEN a.text
    ELSE IF a.text = "fe80::1" THEN "fe80:0000:0000:0000:0000:0000:0000:0001"
    ELSE a.text

\* the ServiceInfo values zc.get_service_info may return, besides None
Infos ==
    { [addrs |-> <<>>, port |-> 5555],
      [addrs |-> <<Addr4>>, port |-> 5555],
      [addrs |-> <<Addr6, Addr4>>, port |-> 5555],
      [addrs |-> <<Addr6>>, port |-> 5556] }

IsV4(a) == a.fam = 4

\* info.ip_addresses_by_version(IPVersion.V4Only) / (IPVersion.All)
AddressesV4(info) == SelectSeq(info.addrs, IsV4)
AddressesAll(info) == info.addrs

\* the address list _pair_device/_connect_device end up with
ResolveAddresses(info) ==
    IF AddressesV4(info) # <<>> THEN AddressesV4(info) ELSE AddressesAll(info)

Resolves(info) == info # NoInfo /\ ResolveAddresses(info) # <<>>

ResolvedIp(info) == Exploded(ResolveAddresses(info)[1])

\* f"{ip_address}:{port}"
DeviceKey(ip, port) == ip \o ":" \o ToString(port)

\* x in y for token sequences: y holds x as a contiguous run
Contains(y, x) ==
    \E i \in 0..(Len(y) - Len(x)) : SubSeq(y, i + 1, i + Len(x)) = x

\* str.lower() on one token
LowerTok(t) ==
    CASE t = "Connected" -> "connected"
      [] t = "CONNECTED" -> "connected"
      [] t = "Already" -> "already"
      [] t = "ALREADY" -> "already"
      [] t = "Successfully" -> "successfully"
      [] t = "Failed" -> "failed"
      [] OTHER -> t

Lower(s) == [i \in 1..Len(s) |-> LowerTok(s[i])]

\* subprocess.run: a completed process, or the exception it raised
Completed(rc, out, err) == [exc |-> "", rc |-> rc, out |-> out, err |-> err]
Raised(exc) == [exc |-> exc, rc |-> 0, out |-> <<>>, err |-> <<>>]

Timeout == Raised("TimeoutExpired")
LaunchError == Raised("OSError")

\* the completed processes `adb pair` is modelled to give
PairResults ==
    { Completed(0, <<"Successfully", "paired", "to">>, <<>>),
      Completed(0, <<"successfully", "paired">>, <<>>),
      Completed(0, <<"Failed">>, <<"Successfully", "paired">>),
      Completed(1, <<"Successfully", "paired", "to">>, <<>>),
      Completed(1, <<>>, <<"Failed">>) }

\* the completed processes `adb connect` is modelled to give
ConnectResults ==
    { Completed(0, <<"connected", "to">>, <<>>),
      Completed(0, <<"Already", "Connected", "to">>, <<>>),
      Completed(0, <<>>, <<"CONNECTED">>),
      Completed(0, <<"failed", "to", "connect">>, <<>>),
      Completed(1, <<"connected", "to">>, <<>>),
      Completed(1, <<>>, <<"Failed">>) }

Exceptions == {Timeout, LaunchError}

\* success read off both streams of the process
PairSucceeded_AnyStream(res) ==
    res.rc = 0 /\ Contains(res.out \o res.err, <<"Successfully", "paired">>)

\* process.returncode == 0 and "Successfully paired" in process.stdout
PairSucceeded(res) ==
    res.rc = 0 /\ Contains(res.out, <<"Successfully", "paired">>)

\* output = (stdout + stderr).lower();
\* returncode == 0 and ("connected" in output or "already connected" in output)
ConnectSucceeded(res) ==
    LET output == Lower(res.out \o res.err)
    IN  res.rc = 0 /\ (Contains(output, <<"connected">>)
                       \/ Contains(output, <<"already", "connected">>))

\* the exceptions of the model and the classes each is an instance of
HookError == "HookError"
Bases(exc) ==
    CASE exc = "TimeoutExpired" -> {"TimeoutExpired", "SubprocessError", "Exception"}
      [] exc = "OSError" -> {"OSError", "Exception"}
      [] exc = "AttributeError" -> {"AttributeError", "Exception"}
      [] exc = "TypeError" -> {"TypeError", "Exception"}
      [] exc = HookError -> {HookError, "Exception"}

\* the except clauses of each try statement
ExceptClauses(try) ==
    CASE try = "pair_add" -> {"Exception"}
      [] try = "pair_dev" -> {"TimeoutExpired", "Exception"}
      [] try = "opp_loop" -> {"Exception"}
      [] try = "conn_add" -> {"Exception"}
      [] try = "conn_dev" -> {"Exception"}

\* every try statement catches timeouts only
Handles_TimeoutOnly(try, exc) == "TimeoutExpired" \in Bases(exc)

\* whether a try statement has an except clause for the exception
Handles(try, exc) == ExceptClauses(try) \cap Bases(exc) # {}

\* the try statements around a point of the code, innermost first
InPairDevice == <<"pair_dev", "pair_add">>
InOppLoop == <<"opp_loop", "pair_dev", "pair_add">>
InConnectDevice == <<"conn_dev", "conn_add">>

\* the try statement that catches an exception raised inside `trys`, or "none"
\* when it leaves add_service
CaughtBy(trys, exc) ==
    IF \E i \in 1..Len(trys) : Handles(trys[i], exc)
    THEN trys[CHOOSE i \in 1..Len(trys) :
                 /\ Handles(trys[i], exc)
                 /\ \A j \in 1..(i - 1) : ~Handles(trys[j], exc)]
    ELSE "none"

\* where the delivery thread is once an exception raised inside `trys` has been
\* dealt with: every except clause that catches it ends the handling of the event,
\* except the one inside the opportunistic loop (see opp_result)
AfterRaise(trys, exc) == IF CaughtBy(trys, exc) = "none" THEN "escaped" ELSE "ret"

----------------------------------------------------------------------------
(* State *)

VARIABLES
    \* AdbService fields
    zeroconf,                    \* 0: None, else the Zeroconf instance
    pairing_browser,             \* 0: None, else the ServiceBrowser
    connect_browser,             \* 0: None, else the ServiceBrowser
    service_name,
    pairing_code,                \* <<>>: "", else the digits
    on_paired,                   \* "none": None, "returns": a callable
    on_connected,                \* "unset": no such attribute, "returns": a callable
    running,                     \* _running
    pairing_listener_instance,   \* 0: no such attribute, else the instance
    connect_listener_instance,   \* 0: no such attribute, else the instance
    \* AdbPairingListener.pairing_code, by instance
    pl_code,
    \* AdbConnectListener.connected_devices / last_seen_service, by instance
    cl_connected,
    cl_last,
    \* the discovery facility: open connections, browsers still subscribed
    zcOpen,
    activePB,
    activeCB,
    \* the caller's thread: where it is inside start(), instances made so far
    mpc,
    nStarts,
    \* the delivery thread: where it is inside add_service, and its locals
    hpc,
    hself,
    hip,
    hport,
    hattempt,
    \* history: what the event being handled is and has done so far (dropped
    \* when add_service returns)
    evKind,
    evInfo,
    evLog,                       \* commands run, sleeps, hook calls, in order
    evOutcomes,                  \* how the subprocess.run calls ended
    \* history: the connect-type events that returned last, as long as they are
    \* events in succession of one listener for one endpoint (at most MaxEvents - 1
    \* of them): how many, the commands they ran, the hook calls they made, and
    \* how many of them ended with a successful attempt
    prev,
    \* the window: the payload its QR code was last generated from
    qr_data

orchVars == <<zeroconf, pairing_browser, connect_browser, service_name, pairing_code,
              on_paired, on_connected, running, pairing_listener_instance,
              connect_listener_instance>>
listenerVars == <<pl_code, cl_connected, cl_last>>
facilityVars == <<zcOpen, activePB, activeCB>>
mainVars == <<mpc, nStarts>>
handlerVars == <<hpc, hself, hip, hport, hattempt>>
eventVars == <<evKind, evInfo, evLog, evOutcomes>>

vars == <<orchVars, listenerVars, facilityVars, mainVars, handlerVars,
          eventVars, prev, qr_data>>

Ids == 1..MaxStarts

\* entries of evLog
LogPair(target, code) == [op |-> "pair", arg |-> target, code |-> code, secs |-> 0]
LogConnect(target) == [op |-> "connect", arg |-> target, code |-> <<>>, secs |-> 0]
LogSleep(secs) == [op |-> "sleep", arg |-> "", code |-> <<>>, secs |-> secs]
LogOnPaired(arg) == [op |-> "on_paired", arg |-> arg, code |-> <<>>, secs |-> 0]
LogOnConnected(arg) == [op |-> "on_connected", arg |-> arg, code |-> <<>>, secs |-> 0]

\* the entries of a log with the given op, in order
Entries(log, op) == SelectSeq(log, LAMBDA e : e.op = op)

NoPrev == [self |-> 0, key |-> "", cmds |-> 0, calls |-> 0, events |-> 0, oks |-> 0]

\* AdbService.__init__ ; no listener exists, nothing has been delivered
Init ==
    /\ zeroconf = 0
    /\ pairing_browser = 0
    /\ connect_browser = 0
    /\ service_name = ""
    /\ pairing_code = <<>>
    /\ on_paired = "none"
    /\ on_connected = "unset"
    /\ running = FALSE
    /\ pairing_listener_instance = 0
    /\ connect_listener_instance = 0
    /\ pl_code = [i \in Ids |-> <<>>]
    /\ cl_connected = [i \in Ids |-> {}]
    /\ cl_last = [i \in Ids |-> NoEndpoint]
    /\ zcOpen = {}
    /\ activePB = {}
    /\ activeCB = {}
    /\ mpc = "idle"
    /\ nStarts = 0
    /\ hpc = "idle"
    /\ hself = 0
    /\ hip = ""
    /\ hport = 0
    /\ hattempt = 0
    /\ evKind = "none"
    /\ evInfo = NoInfo
    /\ evLog = <<>>
    /\ evOutcomes = {}
    /\ prev = NoPrev
    /\ qr_data = <<>>

\* the listener whose add_service is running, when it is of the given kind
InFlight(kind) == IF evKind = kind /\ hpc # "idle" THEN {hself} ELSE {}

\* listener instances nothing refers to any more are dropped: the fields of the
\* instances outside `live` go back to their initial value
KeepCodes(codes, live) == [l \in Ids |-> IF l \in live THEN codes[l] ELSE <<>>]
KeepConnected(sets, live) == [l \in Ids |-> IF l \in live THEN sets[l] ELSE {}]
KeepLast(last, live) == [l \in Ids |-> IF l \in live THEN last[l] ELSE NoEndpoint]

----------------------------------------------------------------------------
(* The caller's thread *)

\* the caller assigns the hooks before it first calls start, as
\* AdbeeWindow.__init__ does
connect_callbacks ==
    /\ mpc = "idle" /\ nStarts = 0
    /\ on_paired = "none" /\ on_connected = "unset"
    /\ on_paired' = "returns"
    /\ on_connected' = "returns"
    /\ UNCHANGED <<zeroconf, pairing_browser, connect_browser, service_name,
                   pairing_code, running, pairing_listener_instance,
                   connect_listener_instance>>
    /\ UNCHANGED <<listenerVars, facilityVars, mainVars, handlerVars,
                   eventVars, prev, qr_data>>

\* generate_credentials that also marks the session as not running
generate_credentials_stops ==
    /\ mpc = "idle"
    /\ \E r \in RandBelow(RandBelowBound) :
          /\ service_name' = ServiceLabel
          /\ pairing_code' = MakeCode(r)
    /\ running' = FALSE
    /\ UNCHANGED <<zeroconf, pairing_browser, connect_browser, on_paired, on_connected,
                   pairing_listener_instance, connect_listener_instance>>
    /\ UNCHANGED <<listenerVars, facilityVars, mainVars, handlerVars, eventVars, prev, qr_data>>

\* AdbService.generate_credentials
generate_credentials ==
    /\ mpc = "idle"
    /\ \E r \in RandBelow(RandBelowBound) :
          /\ service_name' = ServiceLabel
          /\ pairing_code' = MakeCode(r)
    /\ UNCHANGED <<zeroconf, pairing_browser, connect_browser, on_paired, on_connected,
                   running, pairing_listener_instance, connect_listener_instance>>
    /\ UNCHANGED <<listenerVars, facilityVars, mainVars, handlerVars, eventVars, prev, qr_data>>

\* the discovery facility's side of ServiceBrowser.cancel and Zeroconf.close:
\* a closed connection delivers for none of its browsers
CancelledPB == (activePB \ {pairing_browser}) \ {zeroconf}
CancelledCB == (activeCB \ {connect_browser}) \ {zeroconf}
ClosedZc == zcOpen \ {zeroconf}

\* stop() that cancels the browsers and closes the connection but leaves the
\* fields and _running as they are
StopBody_KeepsFields ==
    /\ pl_code' = KeepCodes(pl_code, CancelledPB \cup InFlight("pairing"))
    /\ activePB' = CancelledPB
    /\ activeCB' = CancelledCB
    /\ zcOpen' = ClosedZc
    /\ UNCHANGED <<pairing_browser, connect_browser, zeroconf, running>>

\* the body of AdbService.stop; a cancelled browser lets go of its listener
StopBody ==
    /\ pl_code' = KeepCodes(pl_code, CancelledPB \cup InFlight("pairing"))
    /\ activePB' = CancelledPB
    /\ activeCB' = CancelledCB
    /\ zcOpen' = ClosedZc
    /\ pairing_browser' = 0
    /\ connect_browser' = 0
    /\ zeroconf' = 0
    /\ running' = FALSE

\* AdbService.stop
stop ==
    /\ mpc = "idle"
    /\ StopBody
    /\ UNCHANGED <<service_name, pairing_code, on_paired, on_connected,
                   pairing_listener_instance, connect_listener_instance>>
    /\ UNCHANGED <<cl_connected, cl_last, mainVars, handlerVars, eventVars, prev, qr_data>>

\* AdbService.start when shutil.which("adb") is None: warn and return
start_no_adb ==
    /\ mpc = "idle"
    /\ UNCHANGED <<orchVars, listenerVars, facilityVars, mainVars, handlerVars,
                   eventVars, prev, qr_data>>

\* start() with the previous session left as it is
MustStopFirst_Never == FALSE

\* `if self._running:` in start
MustStopFirst == running

\* AdbService.start, adb found: stop() if _running, then go on to Zeroconf()
start_begin ==
    /\ mpc = "idle"
    /\ nStarts < MaxStarts
    /\ IF MustStopFirst
       THEN StopBody
       ELSE UNCHANGED <<zeroconf, pairing_browser, connect_browser, running,
                        facilityVars, pl_code>>
    /\ mpc' = "zc"
    /\ nStarts' = nStarts + 1
    /\ UNCHANGED <<service_name, pairing_code, on_paired, on_connected,
                   pairing_listener_instance, connect_listener_instance>>
    /\ UNCHANGED <<cl_connected, cl_last, handlerVars, eventVars, prev, qr_data>>

\* self.zeroconf = Zeroconf()
start_zeroconf ==
    /\ mpc = "zc"
    /\ zeroconf' = nStarts
    /\ zcOpen' = zcOpen \cup {nStarts}
    /\ mpc' = "pb"
    /\ UNCHANGED <<pairing_browser, connect_browser, service_name, pairing_code,
                   on_paired, on_connected, running, pairing_listener_instance,
                   connect_listener_instance>>
    /\ UNCHANGED <<listenerVars, activePB, activeCB, nStarts, handlerVars,
                   eventVars, prev, qr_data>>

\* AdbPairingListener(pairing_code=self.pairing_code, ...) and its ServiceBrowser
start_pairing_browser ==
    /\ mpc = "pb"
    /\ pairing_listener_instance' = nStarts
    /\ pl_code' = [pl_code EXCEPT ![nStarts] = pairing_code]
    /\ pairing_browser' = nStarts
    /\ activePB' = activePB \cup {nStarts}
    /\ mpc' = "cb"
    /\ UNCHANGED <<zeroconf, connect_browser, service_name, pairing_code, on_paired,
                   on_connected, running, connect_listener_instance>>
    /\ UNCHANGED <<cl_connected, cl_last, zcOpen, activeCB, nStarts, handlerVars,
                   eventVars, prev, qr_data>>

\* AdbConnectListener(...), its ServiceBrowser, and self._running = True; the
\* attribute lets go of the previous listener
start_connect_browser ==
    /\ mpc = "cb"
    /\ connect_listener_instance' = nStarts
    /\ LET live == activeCB \cup {nStarts} \cup InFlight("connect")
       IN  /\ cl_connected' = KeepConnected([cl_connected EXCEPT ![nStarts] = {}], live)
           /\ cl_last' = KeepLast([cl_last EXCEPT ![nStarts] = NoEndpoint], live)
    /\ connect_browser' = nStarts
    /\ activeCB' = activeCB \cup {nStarts}
    /\ running' = TRUE
    /\ mpc' = "idle"
    /\ UNCHANGED <<zeroconf, pairing_browser, service_name, pairing_code, on_paired,
                   on_connected, pairing_listener_instance>>
    /\ UNCHANGED <<pl_code, zcOpen, activePB, nStarts, handlerVars,
                   eventVars, prev, qr_data>>

----------------------------------------------------------------------------
(* The delivery thread *)

\* the facility calls add_service of listener l
Delivered(kind, l, info) ==
    /\ evOutcomes' = {}
    /\ prev' = IF /\ kind = "connect" /\ prev.self = l /\ Resolves(info)
                  /\ prev.key = DeviceKey(ResolvedIp(info), info.port)
                  /\ prev.events < MaxEvents
               THEN prev
               ELSE NoPrev
    /\ evKind' = kind
    /\ evInfo' = info
    /\ hself' = l

\* AdbPairingListener.add_service: get_service_info, then _pair_device up to
\* subprocess.run of `adb pair <ip>:<port> <code>`
pairing_add_service ==
    /\ hpc = "idle"
    /\ \E l \in activePB, info \in Infos \cup {NoInfo} :
          /\ Delivered("pairing", l, info)
          /\ IF Resolves(info)
             THEN /\ hip' = ResolvedIp(info)
                  /\ hport' = info.port
                  /\ evLog' = <<LogPair(DeviceKey(ResolvedIp(info), info.port),
                                        pl_code[l])>>
                  /\ hpc' = "pair_wait"
             ELSE /\ hip' = ""
                  /\ hport' = 0
                  /\ evLog' = <<>>
                  /\ hpc' = "ret"
    /\ hattempt' = 0
    /\ UNCHANGED <<orchVars, listenerVars, facilityVars, mainVars, qr_data>>

\* how a subprocess.run call ended, for evOutcomes
Outcome(prefix, res, ok) ==
    IF res \in Exceptions THEN prefix \o "raised"
    ELSE IF ok THEN prefix \o "ok" ELSE prefix \o "failed"

\* AdbService.try_connect_last_known, its guard: the attribute exists and
\* last_seen_service is set
HasLastKnown ==
    /\ connect_listener_instance # 0
    /\ cl_last[connect_listener_instance] # NoEndpoint

\* how the run of `adb pair` ended, as the process itself shows it: "pair_ok" for
\* exit code 0 with the words "Successfully paired" in its standard output
PairOutcome(res) ==
    IF res \in Exceptions THEN "pair_raised"
    ELSE IF res.rc = 0 /\ \E i \in 1..(Len(res.out) - 1) :
                              res.out[i] = "Successfully" /\ res.out[i + 1] = "paired"
         THEN "pair_ok"
         ELSE "pair_failed"

\* the listener's callback gets the address and the port joined
PairedArg_WithPort(ip, port) == DeviceKey(ip, port)

\* self.on_paired(ip_address)
PairedArg(ip, port) == ip

\* _pair_device that runs `adb pair` once more after a failed or timed-out run
pair_result_retries ==
    /\ hpc = "pair_wait"
    /\ \E res \in PairResults \cup Exceptions :
          IF res \notin Exceptions /\ PairSucceeded(res)
          THEN /\ evOutcomes' = evOutcomes \cup {PairOutcome(res)}
               /\ evLog' = IF on_paired = "returns"
                           THEN Append(evLog, LogOnPaired(PairedArg(hip, hport)))
                           ELSE evLog
               /\ hpc' = IF HasLastKnown THEN "opp_read" ELSE "ret"
          ELSE /\ evOutcomes' = evOutcomes \cup {PairOutcome(res)}
               /\ IF Len(evLog) < 2
                  THEN /\ evLog' = Append(evLog, evLog[1])
                       /\ hpc' = "pair_wait"
                  ELSE /\ evLog' = evLog
                       /\ hpc' = "ret"
    /\ UNCHANGED <<orchVars, listenerVars, facilityVars, mainVars,
                   hself, hip, hport, hattempt, evKind, evInfo, prev, qr_data>>

\* _pair_device after subprocess.run returned or raised: on success the listener's
\* on_paired, which is start()'s _handle_paired: the caller's hook, then
\* try_connect_last_known up to its guard
pair_result ==
    /\ hpc = "pair_wait"
    /\ \E res \in PairResults \cup Exceptions :
          IF res \notin Exceptions /\ PairSucceeded(res)
          THEN /\ evOutcomes' = evOutcomes \cup {PairOutcome(res)}
               /\ evLog' = IF on_paired \in {"returns", "raises"}
                           THEN Append(evLog, LogOnPaired(PairedArg(hip, hport)))
                           ELSE evLog
               /\ hpc' = IF on_paired = "raises"
                         THEN AfterRaise(InPairDevice, HookError)
                         ELSE IF HasLastKnown THEN "opp_read" ELSE "ret"
          ELSE /\ evOutcomes' = evOutcomes \cup {PairOutcome(res)}
               /\ evLog' = evLog
               /\ hpc' = IF res \in Exceptions
                         THEN AfterRaise(InPairDevice, res.exc)
                         ELSE "ret"
    /\ UNCHANGED <<orchVars, listenerVars, facilityVars, mainVars,
                   hself, hip, hport, hattempt, evKind, evInfo, prev, qr_data>>

\* the endpoint of the pairing announcement being handled
LastKnown_Announced == [ip |-> hip, port |-> hport]

\* self.connect_listener_instance.last_seen_service, as try_connect_last_known
\* reads it after its guard
LastKnown == cl_last[connect_listener_instance]

\* try_connect_last_known run ahead of the caller's hook: its first command comes
\* right after `adb pair`
opp_read_early ==
    /\ hpc = "opp_read"
    /\ LET seen == LastKnown
       IN  IF seen = NoEndpoint
           THEN /\ hpc' = "ret"
                /\ UNCHANGED <<hip, hport, hattempt, evLog>>
           ELSE /\ hip' = seen.ip
                /\ hport' = seen.port
                /\ hattempt' = 1
                /\ evLog' = <<evLog[1], LogConnect(DeviceKey(seen.ip, seen.port))>>
                              \o SubSeq(evLog, 2, Len(evLog))
                /\ hpc' = "opp_wait"
    /\ UNCHANGED <<orchVars, listenerVars, facilityVars, mainVars,
                   hself, evKind, evInfo, evOutcomes, prev, qr_data>>

\* try_connect_last_known: ip, port = self.connect_listener_instance.last_seen_service
\* (a TypeError when it is None by now), then the first subprocess.run
opp_read ==
    /\ hpc = "opp_read"
    /\ LET seen == LastKnown
       IN  IF seen = NoEndpoint
           THEN /\ hpc' = AfterRaise(InPairDevice, "TypeError")
                /\ UNCHANGED <<hip, hport, hattempt, evLog>>
           ELSE /\ hip' = seen.ip
                /\ hport' = seen.port
                /\ hattempt' = 1
                /\ evLog' = Append(evLog, LogConnect(DeviceKey(seen.ip, seen.port)))
                /\ hpc' = "opp_wait"
    /\ UNCHANGED <<orchVars, listenerVars, facilityVars, mainVars,
                   hself, evKind, evInfo, evOutcomes, prev, qr_data>>

\* a wait after the last attempt as well
SleepsAfter_Last(attempt, max_retries) == attempt <= max_retries

\* whether a failed attempt is followed by time.sleep and a further attempt:
\* `if attempt < max_retries` inside `for attempt in range(1, max_retries + 1)`
SleepsAfter(attempt, max_retries) == attempt < max_retries

\* try_connect_last_known that records a successful endpoint in the Connect
\* Handler's connected_devices
opp_result_remembers ==
    /\ hpc = "opp_wait"
    /\ \E res \in ConnectResults \cup Exceptions :
          LET ok == res \notin Exceptions /\ ConnectSucceeded(res)
              returned == ok /\ on_connected # "unset"
          IN  /\ evOutcomes' = evOutcomes \cup {Outcome("", res, ok)}
              /\ IF returned
                 THEN /\ evLog' = IF on_connected = "returns"
                                  THEN Append(evLog,
                                              LogOnConnected(DeviceKey(hip, hport)))
                                  ELSE evLog
                      /\ cl_connected' =
                            [cl_connected EXCEPT ![connect_listener_instance] =
                                @ \cup {DeviceKey(hip, hport)}]
                      /\ hpc' = "ret"
                 ELSE /\ cl_connected' = cl_connected
                      /\ IF SleepsAfter(hattempt, OppMaxRetries)
                         THEN /\ evLog' = Append(evLog, LogSleep(OppSleep))
                              /\ hpc' = "opp_sleep"
                         ELSE /\ evLog' = evLog
                              /\ hpc' = "ret"
    /\ UNCHANGED <<orchVars, pl_code, cl_last, facilityVars, mainVars,
                   hself, hip, hport, hattempt, evKind, evInfo, prev, qr_data>>

\* try_connect_last_known after subprocess.run returned or raised
opp_result ==
    /\ hpc = "opp_wait"
    /\ \E res \in ConnectResults \cup Exceptions :
          LET ok == res \notin Exceptions /\ ConnectSucceeded(res)
              \* `if self.on_connected` raises AttributeError when never assigned
              returned == ok /\ on_connected = "returns"
              called == IF ok /\ on_connected \in {"returns", "raises"}
                        THEN Append(evLog, LogOnConnected(DeviceKey(hip, hport)))
                        ELSE evLog
              exc == IF res \in Exceptions THEN res.exc
                     ELSE IF ok /\ on_connected = "unset" THEN "AttributeError"
                     ELSE IF ok /\ on_connected = "raises" THEN HookError
                     ELSE ""
          IN  /\ evOutcomes' = evOutcomes \cup {Outcome("", res, ok)}
              /\ IF returned
                 THEN /\ evLog' = called
                      /\ hpc' = "ret"
                 ELSE IF exc # "" /\ CaughtBy(InOppLoop, exc) # "opp_loop"
                      THEN /\ evLog' = called
                           /\ hpc' = AfterRaise(InOppLoop, exc)
                      ELSE IF SleepsAfter(hattempt, OppMaxRetries)
                      THEN /\ evLog' = Append(called, LogSleep(OppSleep))
                           /\ hpc' = "opp_sleep"
                      ELSE /\ evLog' = called
                           /\ hpc' = "ret"
    /\ UNCHANGED <<orchVars, listenerVars, facilityVars, mainVars,
                   hself, hip, hport, hattempt, evKind, evInfo, prev, qr_data>>

\* time.sleep(1.0) is over: the next attempt's subprocess.run
opp_retry ==
    /\ hpc = "opp_sleep"
    /\ hattempt' = hattempt + 1
    /\ evLog' = Append(evLog, LogConnect(DeviceKey(hip, hport)))
    /\ hpc' = "opp_wait"
    /\ UNCHANGED <<orchVars, listenerVars, facilityVars, mainVars,
                   hself, hip, hport, evKind, evInfo, evOutcomes, prev, qr_data>>

\* no endpoint is ever taken for connected
AlreadyConnected_Never(l, key) == FALSE

\* device_key in self.connected_devices
AlreadyConnected(l, key) == key \in cl_connected[l]

\* the endpoint is recorded only when it is not skipped as already connected
SeenAfter_SkipsKnown(last, l, ip, port) ==
    IF AlreadyConnected(l, DeviceKey(ip, port))
    THEN last
    ELSE [last EXCEPT ![l] = [ip |-> ip, port |-> port]]

\* self.last_seen_service = (ip_address, port)
SeenAfter(last, l, ip, port) == [last EXCEPT ![l] = [ip |-> ip, port |-> port]]

\* AdbConnectListener.add_service: get_service_info, then _connect_device up to
\* the first subprocess.run of `adb connect <ip>:<port>`
connect_add_service ==
    /\ hpc = "idle"
    /\ \E l \in activeCB, info \in Infos \cup {NoInfo} :
          /\ Delivered("connect", l, info)
          /\ IF Resolves(info)
             THEN LET ip == ResolvedIp(info)
                      key == DeviceKey(ip, info.port)
                  IN  /\ cl_last' = SeenAfter(cl_last, l, ip, info.port)
                      /\ hip' = ip
                      /\ hport' = info.port
                      /\ IF AlreadyConnected(l, key)
                         THEN /\ evLog' = <<>>
                              /\ hattempt' = 0
                              /\ hpc' = "ret"
                         ELSE /\ evLog' = <<LogConnect(key)>>
                              /\ hattempt' = 1
                              /\ hpc' = "conn_wait"
             ELSE /\ hip' = ""
                  /\ hport' = 0
                  /\ hattempt' = 0
                  /\ evLog' = <<>>
                  /\ hpc' = "ret"
                  /\ cl_last' = cl_last
    /\ UNCHANGED <<orchVars, pl_code, cl_connected, facilityVars, mainVars, qr_data>>

\* a successful endpoint is not kept
Remember_Forgets(devices, key) == devices

\* self.connected_devices.add(device_key)
Remember(devices, key) == devices \cup {key}

\* _connect_device after subprocess.run returned or raised: an exception leaves the
\* retry loop through the outer except; on success the listener's on_connected is
\* start()'s _handle_connected, which reads the caller's hook
connect_result ==
    /\ hpc = "conn_wait"
    /\ \E res \in ConnectResults \cup Exceptions :
        /\ evOutcomes' = evOutcomes
                          \cup {Outcome("", res, res \notin Exceptions /\ ConnectSucceeded(res))}
        /\ IF res \in Exceptions
          THEN /\ hpc' = AfterRaise(InConnectDevice, res.exc)
               /\ UNCHANGED <<cl_connected, evLog>>
          ELSE IF ConnectSucceeded(res)
          THEN /\ cl_connected' = [cl_connected EXCEPT
                                     ![hself] = Remember(@, DeviceKey(hip, hport))]
               /\ evLog' = IF on_connected \in {"returns", "raises"}
                           THEN Append(evLog, LogOnConnected(DeviceKey(hip, hport)))
                           ELSE evLog
               /\ hpc' = CASE on_connected = "unset" ->
                                  AfterRaise(InConnectDevice, "AttributeError")
                           [] on_connected = "raises" ->
                                  AfterRaise(InConnectDevice, HookError)
                           [] OTHER -> "ret"
          ELSE IF SleepsAfter(hattempt, ConnectMaxRetries)
          THEN /\ evLog' = Append(evLog, LogSleep(ConnectSleep))
               /\ hpc' = "conn_sleep"
               /\ UNCHANGED cl_connected
          ELSE /\ hpc' = "ret"
               /\ UNCHANGED <<cl_connected, evLog>>
    /\ UNCHANGED <<orchVars, pl_code, cl_last, facilityVars, mainVars,
                   hself, hip, hport, hattempt, evKind, evInfo, prev, qr_data>>

\* after the wait the loop starts over from its first attempt
connect_retry_starts_over ==
    /\ hpc = "conn_sleep"
    /\ hattempt' = 1
    /\ evLog' = <<LogConnect(DeviceKey(hip, hport))>>
    /\ hpc' = "conn_wait"
    /\ UNCHANGED <<orchVars, listenerVars, facilityVars, mainVars,
                   hself, hip, hport, evKind, evInfo, evOutcomes, prev, qr_data>>

\* time.sleep(2) is over: the next attempt's subprocess.run
connect_retry ==
    /\ hpc = "conn_sleep"
    /\ hattempt' = hattempt + 1
    /\ evLog' = Append(evLog, LogConnect(DeviceKey(hip, hport)))
    /\ hpc' = "conn_wait"
    /\ UNCHANGED <<orchVars, listenerVars, facilityVars, mainVars,
                   hself, hip, hport, evKind, evInfo, evOutcomes, prev, qr_data>>

\* AdbPairingListener.remove_service: a print
pairing_remove_service ==
    /\ hpc = "idle"
    /\ activePB # {}
    /\ UNCHANGED vars

\* AdbPairingListener.update_service: pass
pairing_update_service ==
    /\ hpc = "idle"
    /\ activePB # {}
    /\ UNCHANGED vars

\* remove_service that drops what the listener has connected and seen
connect_remove_service_forgets ==
    /\ hpc = "idle"
    /\ \E l \in activeCB :
          /\ cl_connected' = [cl_connected EXCEPT ![l] = {}]
          /\ cl_last' = [cl_last EXCEPT ![l] = NoEndpoint]
    /\ UNCHANGED <<orchVars, pl_code, facilityVars, mainVars, handlerVars,
                   eventVars, prev, qr_data>>

\* AdbConnectListener.remove_service: pass
connect_remove_service ==
    /\ hpc = "idle"
    /\ activeCB # {}
    /\ UNCHANGED vars

\* AdbConnectListener.update_service: pass
connect_update_service ==
    /\ hpc = "idle"
    /\ activeCB # {}
    /\ UNCHANGED vars

----------------------------------------------------------------------------
\* add_service returns to the facility: the locals are gone, and with them the
\* last reference to a listener that is no longer registered
add_service_return ==
    /\ hpc = "ret"
    /\ hpc' = "idle"
    /\ hself' = 0
    /\ hip' = ""
    /\ hport' = 0
    /\ hattempt' = 0
    /\ evKind' = "none"
    /\ evInfo' = NoInfo
    /\ evLog' = <<>>
    /\ evOutcomes' = {}
    /\ prev' = IF evKind = "connect" /\ Resolves(evInfo)
               THEN [self |-> hself,
                     key |-> DeviceKey(hip, hport),
                     cmds |-> prev.cmds + Len(Entries(evLog, "connect")),
                     calls |-> prev.calls + Len(Entries(evLog, "on_connected")),
                     events |-> prev.events + 1,
                     oks |-> prev.oks + (IF "ok" \in evOutcomes THEN 1 ELSE 0)]
               ELSE prev
    /\ pl_code' = KeepCodes(pl_code, activePB)
    /\ LET live == activeCB \cup {connect_listener_instance}
       IN  /\ cl_connected' = KeepConnected(cl_connected, live)
           /\ cl_last' = KeepLast(cl_last, live)
    /\ UNCHANGED <<orchVars, facilityVars, mainVars, qr_data>>

----------------------------------------------------------------------------
(* Specification: adb and the discovery facility work when start() runs *)

Next ==
    \/ connect_callbacks
    \/ generate_credentials
    \/ stop
    \/ start_no_adb
    \/ start_begin
    \/ start_zeroconf
    \/ start_pairing_browser
    \/ start_connect_browser
    \/ pairing_add_service
    \/ pair_result
    \/ opp_read
    \/ opp_result
    \/ opp_retry
    \/ connect_add_service
    \/ connect_result
    \/ connect_retry
    \/ pairing_remove_service
    \/ pairing_update_service
    \/ connect_remove_service
    \/ connect_update_service
    \/ add_service_return

Spec == Init /\ [][Next]_vars

----------------------------------------------------------------------------
(* Specifications: adb may be missing; the discovery facility may raise *)

\* AdbService.start up to has_adb(), which finds no adb
start_adb_check ==
    /\ mpc = "idle"
    /\ mpc' = "adb"
    /\ UNCHANGED <<orchVars, listenerVars, facilityVars, nStarts, handlerVars,
                   eventVars, prev, qr_data>>

\* `if not self.has_adb(): ... return`
start_no_adb_return ==
    /\ mpc = "adb"
    /\ mpc' = "idle"
    /\ UNCHANGED <<orchVars, listenerVars, facilityVars, nStarts, handlerVars,
                   eventVars, prev, qr_data>>

NextNoAdb ==
    \/ Next
    \/ start_adb_check
    \/ start_no_adb_return

SpecNoAdb == Init /\ [][NextNoAdb]_vars

\* Zeroconf() raises: start()'s except logs it and start() returns
zeroconf_raises ==
    /\ mpc = "zc"
    /\ mpc' = "idle"
    /\ UNCHANGED <<orchVars, listenerVars, facilityVars, nStarts, handlerVars,
                   eventVars, prev, qr_data>>

\* the pairing listener is built and assigned, then its ServiceBrowser raises; the
\* listener is registered nowhere
pairing_browser_raises ==
    /\ mpc = "pb"
    /\ pairing_listener_instance' = nStarts
    /\ mpc' = "idle"
    /\ UNCHANGED <<zeroconf, pairing_browser, connect_browser, service_name,
                   pairing_code, on_paired, on_connected, running,
                   connect_listener_instance>>
    /\ UNCHANGED <<listenerVars, facilityVars, nStarts, handlerVars, eventVars, prev, qr_data>>

\* the connect listener is built and assigned, then its ServiceBrowser raises;
\* _running stays False
connect_browser_raises ==
    /\ mpc = "cb"
    /\ connect_listener_instance' = nStarts
    /\ LET live == activeCB \cup {nStarts} \cup InFlight("connect")
       IN  /\ cl_connected' = KeepConnected([cl_connected EXCEPT ![nStarts] = {}], live)
           /\ cl_last' = KeepLast([cl_last EXCEPT ![nStarts] = NoEndpoint], live)
    /\ mpc' = "idle"
    /\ UNCHANGED <<zeroconf, pairing_browser, connect_browser, service_name,
                   pairing_code, on_paired, on_connected, running,
                   pairing_listener_instance>>
    /\ UNCHANGED <<pl_code, facilityVars, nStarts, handlerVars, eventVars, prev, qr_data>>

NextUnavailable ==
    \/ NextNoAdb
    \/ zeroconf_raises
    \/ pairing_browser_raises
    \/ connect_browser_raises

SpecUnavailable == Init /\ [][NextUnavailable]_vars

----------------------------------------------------------------------------
(* Specification: the caller's hooks may raise *)

\* the caller assigns its hooks before it first calls start, and one of them
\* raises whenever it is called
connect_callbacks_raising ==
    /\ mpc = "idle" /\ nStarts = 0
    /\ on_paired = "none" /\ on_connected = "unset"
    /\ \E raising \in {"on_paired", "on_connected"} :
          /\ on_paired' = IF raising = "on_paired" THEN "raises" ELSE "returns"
          /\ on_connected' = IF raising = "on_connected" THEN "raises" ELSE "returns"
    /\ UNCHANGED <<zeroconf, pairing_browser, connect_browser, service_name,
                   pairing_code, running, pairing_listener_instance,
                   connect_listener_instance>>
    /\ UNCHANGED <<listenerVars, facilityVars, mainVars, handlerVars,
                   eventVars, prev, qr_data>>

NextRaising ==
    \/ connect_callbacks_raising
    \/ generate_credentials
    \/ stop
    \/ start_no_adb
    \/ start_begin
    \/ start_zeroconf
    \/ start_pairing_browser
    \/ start_connect_browser
    \/ pairing_add_service
    \/ pair_result
    \/ opp_read
    \/ opp_result
    \/ opp_retry
    \/ connect_add_service
    \/ connect_result
    \/ connect_retry
    \/ pairing_remove_service
    \/ pairing_update_service
    \/ connect_remove_service
    \/ connect_update_service
    \/ add_service_return

SpecRaising == Init /\ [][NextRaising]_vars

----------------------------------------------------------------------------
(* Specification: the delivery thread keeps running *)

\* the steps of the delivery thread inside add_service: a subprocess.run that
\* returns or raises, a time.sleep that ends, a return
DeliveryStep ==
    \/ pair_result
    \/ opp_read
    \/ opp_result
    \/ opp_retry
    \/ connect_result
    \/ connect_retry
    \/ add_service_return

\* the credentials stay as constructed: the pairing code is an argument of
\* `adb pair` and decides nothing in add_service
NextLive ==
    \/ connect_callbacks
    \/ stop
    \/ start_no_adb
    \/ start_begin
    \/ start_zeroconf
    \/ start_pairing_browser
    \/ start_connect_browser
    \/ pairing_add_service
    \/ connect_add_service
    \/ pairing_remove_service
    \/ pairing_update_service
    \/ connect_remove_service
    \/ connect_update_service
    \/ DeliveryStep

\* every adb command returns or runs into its timeout (timeout=30, timeout=5),
\* every time.sleep ends, the caller's hooks return, and the delivery thread is
\* scheduled: a step of add_service that can be taken is taken in the end
SpecLive == Init /\ [][NextLive]_vars /\ WF_vars(DeliveryStep)

----------------------------------------------------------------------------
(* Specification: the window is the only caller; adb may be missing and the
   discovery facility may raise *)

\* f"WIFI:T:ADB;S:{service_name};P:{pairing_code};;", the code digit by digit
QrPayload(name, code) == <<"WIFI:T:ADB;S:", name, ";P:">> \o code \o <<";;">>

\* what a scanner reads as the pairing code: what stands between ";P:" and the
\* closing ";;"
QrCode(payload) ==
    IF \E i \in 1..Len(payload) : payload[i] = ";P:"
    THEN LET i == CHOOSE j \in 1..Len(payload) : payload[j] = ";P:"
         IN  SubSeq(payload, i + 1, Len(payload) - 1)
    ELSE <<>>

\* the window has been constructed up to the assignment of its hooks
WindowBuilt == on_paired = "returns" /\ on_connected = "returns"

\* generate_new_pairing: self.adb_service.stop()
window_stop ==
    /\ mpc = "idle"
    /\ WindowBuilt
    /\ StopBody
    /\ mpc' = "w_stopped"
    /\ UNCHANGED <<service_name, pairing_code, on_paired, on_connected,
                   pairing_listener_instance, connect_listener_instance>>
    /\ UNCHANGED <<cl_connected, cl_last, nStarts, handlerVars, eventVars, prev, qr_data>>

\* generate_new_pairing that builds the payload from the credentials the service
\* held before generate_credentials
window_generate_stale_qr ==
    /\ mpc = "w_stopped"
    /\ \E r \in RandBelow(RandBelowBound) :
          /\ service_name' = ServiceLabel
          /\ pairing_code' = MakeCode(r)
          /\ qr_data' = QrPayload(service_name, pairing_code)
    /\ mpc' = "w_qr"
    /\ UNCHANGED <<zeroconf, pairing_browser, connect_browser, on_paired, on_connected,
                   running, pairing_listener_instance, connect_listener_instance>>
    /\ UNCHANGED <<listenerVars, facilityVars, nStarts, handlerVars, eventVars, prev>>

\* generate_new_pairing: generate_credentials(), the labels, and qr_data built from
\* the pair it returned
window_generate ==
    /\ mpc = "w_stopped"
    /\ \E r \in RandBelow(RandBelowBound) :
          /\ service_name' = ServiceLabel
          /\ pairing_code' = MakeCode(r)
          /\ qr_data' = QrPayload(ServiceLabel, MakeCode(r))
    /\ mpc' = "w_qr"
    /\ UNCHANGED <<zeroconf, pairing_browser, connect_browser, on_paired, on_connected,
                   running, pairing_listener_instance, connect_listener_instance>>
    /\ UNCHANGED <<listenerVars, facilityVars, nStarts, handlerVars, eventVars, prev>>

\* generate_new_pairing: self.adb_service.start(), which finds no adb and returns
window_start_no_adb ==
    /\ mpc = "w_qr"
    /\ mpc' = "idle"
    /\ UNCHANGED <<orchVars, listenerVars, facilityVars, nStarts, handlerVars,
                   eventVars, prev, qr_data>>

\* generate_new_pairing: self.adb_service.start(), adb found: stop() if _running,
\* then go on to Zeroconf()
window_start_begin ==
    /\ mpc = "w_qr"
    /\ nStarts < MaxStarts
    /\ IF MustStopFirst
       THEN StopBody
       ELSE UNCHANGED <<zeroconf, pairing_browser, connect_browser, running,
                        facilityVars, pl_code>>
    /\ mpc' = "zc"
    /\ nStarts' = nStarts + 1
    /\ UNCHANGED <<service_name, pairing_code, on_paired, on_connected,
                   pairing_listener_instance, connect_listener_instance>>
    /\ UNCHANGED <<cl_connected, cl_last, handlerVars, eventVars, prev, qr_data>>

NextWindow ==
    \/ connect_callbacks
    \/ window_stop
    \/ window_generate
    \/ window_start_no_adb
    \/ window_start_begin
    \/ start_zeroconf
    \/ zeroconf_raises
    \/ start_pairing_browser
    \/ pairing_browser_raises
    \/ start_connect_browser
    \/ connect_browser_raises
    \/ pairing_add_service
    \/ connect_add_service
    \/ pairing_remove_service
    \/ pairing_update_service
    \/ connect_remove_service
    \/ connect_update_service
    \/ DeliveryStep

SpecWindow == Init /\ [][NextWindow]_vars

----------------------------------------------------------------------------
(* Properties of the orchestrator *)

Idle == ~running
Running == running

\* C1: whatever start() calls are made, at most one discovery connection is open and
\* at most one browser per service type is subscribed, all of them the orchestrator's
\* current ones; a start() made while Running has cancelled both browsers of the
\* previous session and closed its connection before it opens the new connection
\* (mpc = "zc") and before it registers either new browser (mpc = "pb", "cb"); once
\* start() has returned Running, exactly one watcher is active.
C1_OneWatcher ==
    /\ Cardinality(zcOpen) <= 1
    /\ Cardinality(activePB) <= 1
    /\ Cardinality(activeCB) <= 1
    /\ zcOpen \subseteq {zeroconf}
    /\ activePB \subseteq {pairing_browser} \cap zcOpen
    /\ activeCB \subseteq {connect_browser} \cap zcOpen
    /\ mpc = "zc" => zcOpen = {} /\ activePB = {} /\ activeCB = {}
    /\ mpc = "pb" => zcOpen = {nStarts} /\ activePB = {} /\ activeCB = {}
    /\ mpc = "cb" => zcOpen = {nStarts} /\ activePB = {nStarts} /\ activeCB = {}
    /\ (Running /\ mpc = "idle") =>
          zcOpen = {nStarts} /\ activePB = {nStarts} /\ activeCB = {nStarts}

\* a second start() is about to open its connection: the first session's listener is
\* still the orchestrator's, its watcher is gone
C1_Witness ==
    /\ nStarts = 2 /\ mpc = "zc"
    /\ connect_listener_instance = 1
    /\ zcOpen = {}

\* the `adb connect` commands of a log, and the hook calls
Connects(log) == Entries(log, "connect")
ConnectedCalls(log) == Entries(log, "on_connected")

\* a second connect-type event of the same listener for the same endpoint is being
\* handled, or has been
SecondEvent == prev.events = 1 /\ evKind = "connect" /\ hpc # "idle"

\* C2 as stated: across two connect-type events of one session for the same
\* "ip:port", `adb connect` is run at most once, whatever the first event's outcome.
C2_AtMostOnceWhatever ==
    SecondEvent => prev.cmds + Len(Connects(evLog)) <= 1

\* C2: two connect-type events in succession of one listener for the same "ip:port":
\* when an attempt of the first succeeded, the second runs no `adb connect`; neither
\* event runs it more than 3 times; across both it is run at most once when the first
\* event needed no more than one attempt and that one succeeded.
C2_DedupAfterSuccess ==
    /\ evKind = "connect" => Len(Connects(evLog)) <= ConnectMaxRetries
    /\ SecondEvent =>
          /\ prev.cmds <= ConnectMaxRetries
          /\ prev.oks >= 1 => Connects(evLog) = <<>>
          /\ Connects(evLog) # <<>> => prev.oks = 0
          /\ (prev.oks >= 1 /\ prev.cmds <= 1) => prev.cmds + Len(Connects(evLog)) <= 1

\* the first event connected at its first attempt; the second has been skipped
C2_Witness ==
    /\ SecondEvent /\ hpc = "ret"
    /\ prev.oks = 1 /\ prev.cmds = 1
    /\ evLog = <<>>

\* C3 as stated, for a caller whose hook is set: after a connect-type event that
\* ended with a successful attempt, the next one for the same endpoint runs no
\* command and calls no hook, and across both there is exactly one `adb connect` and
\* exactly one on_connected call.
C3_ExactlyOneInvocation ==
    (SecondEvent /\ prev.oks >= 1 /\ on_connected = "returns") =>
        /\ evLog = <<>>
        /\ prev.cmds + Len(Connects(evLog)) = 1
        /\ prev.calls + Len(ConnectedCalls(evLog)) = 1

\* C3: after a connect-type event that ended with a successful attempt, the next one
\* of the same listener for the same endpoint runs no command and calls no hook;
\* across both there is exactly one successful `adb connect`, after at most 2 failed
\* ones (none when the first attempt succeeds), and exactly one on_connected call
\* when the caller's hook is set, none otherwise; the hook's argument is "ip:port".
C3_DedupNoCommandNoHook ==
    /\ (SecondEvent /\ prev.oks >= 1) =>
          /\ hpc = "ret" /\ evLog = <<>> /\ evOutcomes = {}
          /\ prev.oks = 1
          /\ prev.cmds \in 1..ConnectMaxRetries
          /\ prev.calls = IF on_connected = "returns" THEN 1 ELSE 0
    /\ prev.oks <= 1
    /\ prev.calls <= prev.oks
    /\ evKind = "connect" =>
          /\ "ok" \in evOutcomes => hpc = "ret"
          /\ evOutcomes = {"ok"} => Len(Connects(evLog)) = 1
          /\ Len(ConnectedCalls(evLog)) =
                IF "ok" \in evOutcomes /\ on_connected = "returns" THEN 1 ELSE 0
          /\ \A i \in 1..Len(evLog) :
                evLog[i].op = "on_connected" =>
                    /\ i = Len(evLog)
                    /\ evLog[i].arg = DeviceKey(ResolvedIp(evInfo), evInfo.port)

\* the first event connected at its second attempt and called the hook; the second
\* event has been skipped
C3_Witness ==
    /\ SecondEvent /\ hpc = "ret"
    /\ prev.oks = 1 /\ prev.cmds = 2 /\ prev.calls = 1
    /\ evLog = <<>>

\* n attempts on one endpoint with a wait of secs seconds between them
RECURSIVE RetryTrace(_, _, _)
RetryTrace(key, secs, n) ==
    IF n <= 1 THEN <<LogConnect(key)>>
    ELSE RetryTrace(key, secs, n - 1) \o <<LogSleep(secs), LogConnect(key)>>

\* the commands and waits of a log from its first `adb connect` on
Attempts(log) == SelectSeq(log, LAMBDA e : e.op \in {"connect", "sleep"})

\* C4: a trigger all of whose attempts came back failed (non-zero exit or no success
\* marker) has, when its handling ends, run `adb connect` exactly 3 times, one after
\* the other, with a wait after the 1st and the 2nd and none after the 3rd: 2 seconds
\* for a connect announcement, 1 second for the opportunistic path; no hook is
\* called, and the handling ends there (add_service returns with the log as it is).
C4_ThreeAttempts ==
    /\ (evKind = "connect" /\ hpc = "ret" /\ evOutcomes = {"failed"}) =>
          /\ evLog = RetryTrace(DeviceKey(hip, hport), ConnectSleep, 3)
          /\ evLog[2].secs = 2 /\ evLog[4].secs = 2
          /\ hattempt = 3
    /\ (evKind = "pairing" /\ hpc = "ret" /\ evOutcomes = {"pair_ok", "failed"}) =>
          /\ Attempts(evLog) = RetryTrace(DeviceKey(hip, hport), OppSleep, 3)
          /\ Attempts(evLog)[2].secs = 1 /\ Attempts(evLog)[4].secs = 1
          /\ ConnectedCalls(evLog) = <<>>
          /\ hattempt = 3
    /\ hpc = "ret" => evLog = <<>> \/ evLog[Len(evLog)].op # "sleep"
    /\ Len(Connects(evLog)) <= 3
    /\ hpc \in {"conn_sleep", "opp_sleep"} => hattempt < 3

\* three failed attempts on the opportunistic path, waits of 1 second between them
C4_Witness ==
    /\ evKind = "pairing" /\ hpc = "ret"
    /\ evOutcomes = {"pair_ok", "failed"}
    /\ Len(Connects(evLog)) = 3
    /\ Len(Entries(evLog, "sleep")) = 2

\* C5: the step that ends a successful `adb pair` goes on, inside the same
\* add_service call, to the opportunistic path when the orchestrator's Connect
\* Handler has a last seen endpoint, and otherwise ends the handling with no
\* `adb connect` run; the path's first step runs `adb connect` on exactly the
\* endpoint stored in the orchestrator's Connect Handler (not the announced one,
\* no get_service_info, no address resolution: evInfo is unchanged), and every
\* further attempt of the event targets that same endpoint.
C5_Opportunistic ==
    [][/\ (hpc = "pair_wait" /\ hpc' # "pair_wait" /\ "pair_ok" \in evOutcomes') =>
             /\ evKind' = "pairing" /\ evInfo' = evInfo /\ hself' = hself
             /\ HasLastKnown => hpc' = "opp_read"
             /\ ~HasLastKnown => hpc' = "ret" /\ Connects(evLog') = <<>>
       /\ (hpc = "pair_wait" /\ hpc' # "pair_wait" /\ "pair_ok" \notin evOutcomes') =>
             hpc' = "ret" /\ Connects(evLog') = <<>>
       /\ (hpc = "opp_read" /\ hpc' # "opp_read") =>
             /\ evKind' = "pairing" /\ evInfo' = evInfo /\ hself' = hself
             /\ IF connect_listener_instance # 0
                   /\ cl_last[connect_listener_instance] # NoEndpoint
                THEN LET seen == cl_last[connect_listener_instance]
                     IN  /\ hpc' = "opp_wait"
                         /\ evLog' = Append(evLog,
                                            LogConnect(DeviceKey(seen.ip, seen.port)))
                         /\ hip' = seen.ip /\ hport' = seen.port
                ELSE hpc' = "ret" /\ evLog' = evLog
       /\ (hpc = "opp_sleep" /\ hpc' # "opp_sleep") =>
             /\ hpc' = "opp_wait"
             /\ evLog' = Append(evLog, LogConnect(DeviceKey(hip, hport)))
             /\ UNCHANGED <<hip, hport, evInfo>>
      ]_vars

\* the opportunistic path is waiting for `adb connect` on the stored endpoint, which
\* is not the endpoint the pairing service was announced on
C5_Witness ==
    /\ evKind = "pairing" /\ hpc = "opp_wait"
    /\ connect_listener_instance # 0
    /\ cl_last[connect_listener_instance] = [ip |-> hip, port |-> hport]
    /\ DeviceKey(hip, hport) # DeviceKey(ResolvedIp(evInfo), evInfo.port)
    /\ hip # ResolvedIp(evInfo)

\* C6: a pairing-type event whose `adb pair` exited zero with "Successfully paired"
\* in its output has called the caller's on_paired exactly once, with the address
\* the announcement resolved to and no port; before that, and for any other
\* outcome, it has not called it (a caller without hook is called nothing).
C6_OnPairedOnce ==
    evKind = "pairing" =>
        /\ ("pair_ok" \in evOutcomes /\ on_paired = "returns") =>
              /\ Entries(evLog, "on_paired") = <<LogOnPaired(ResolvedIp(evInfo))>>
              /\ evLog[2] = LogOnPaired(ResolvedIp(evInfo))
              /\ evLog[2].arg \in {Exploded(Addr4), Exploded(Addr6)}
              /\ evLog[2].arg # DeviceKey(ResolvedIp(evInfo), evInfo.port)
        /\ ("pair_ok" \notin evOutcomes \/ on_paired # "returns") =>
              Entries(evLog, "on_paired") = <<>>
        /\ Len(Entries(evLog, "pair")) <= 1

\* a pairing announced on an IPv6 address only has succeeded and the hook was called
C6_Witness ==
    /\ evKind = "pairing" /\ "pair_ok" \in evOutcomes
    /\ on_paired = "returns"
    /\ evInfo.addrs = <<Addr6>>
    /\ Len(Entries(evLog, "on_paired")) = 1

\* C7: the step that issues `adb pair` passes the orchestrator's pairing_code, the
\* code generate_credentials returned last.
C7_CurrentCode ==
    [][(hpc = "idle" /\ hpc' = "pair_wait") => evLog'[1].code = pairing_code]_vars

\* generate_credentials can be taken, whether Idle or Running
GeneratePermitted ==
    mpc = "idle" => ENABLED generate_credentials

\* C8: generate_credentials is permitted whenever the caller's thread is not inside
\* start, Idle or Running, and a generate_credentials step changes service_name and
\* pairing_code and nothing else: not _running, the connection, the browsers, the
\* listener instances and their fields (connected_devices, last_seen_service, the
\* Pairing Handler's code), nor what the discovery facility has registered.
C8_GenerateFrame ==
    /\ []GeneratePermitted
    /\ [][generate_credentials =>
             UNCHANGED <<running, zeroconf, pairing_browser, connect_browser,
                         pairing_listener_instance, connect_listener_instance,
                         on_paired, on_connected, listenerVars, facilityVars,
                         mainVars>>]_vars

\* credentials were generated while Running: the registered Pairing Handler was
\* built from an earlier code
C8_Witness ==
    /\ Running /\ mpc = "idle"
    /\ activePB = {pairing_browser}
    /\ pairing_code # pl_code[pairing_browser]

IsDigit(c) == \E d \in 0..9 : DigitChar[d + 1] = c

\* C9: a generated pairing code is exactly 6 decimal digits, its first digit is
\* not 0, its value lies in [100000, 999999] and is the offset plus a value the
\* draw can take, and the service name generated with it is always the same
\* label; the draw takes every value of 0..899999, its lowest and highest included,
\* which the offset maps onto exactly 100000..999999.
C9_CodeFormat ==
    /\ pairing_code # <<>> =>
          /\ Len(pairing_code) = 6
          /\ \A i \in 1..6 : IsDigit(pairing_code[i])
          /\ pairing_code[1] # "0"
          /\ LET value == IntOf(pairing_code)
             IN  /\ value >= 100000 /\ value <= 999999
                 /\ value - CodeBase >= 0 /\ value - CodeBase < RandBelowBound
                 /\ pairing_code = Str(value)
          /\ service_name = "adbee"
    /\ pairing_code = <<>> => service_name = ""
    /\ {0, 899999} \subseteq RandBelow(RandBelowBound)
    /\ CodeBase + 0 = 100000
    /\ CodeBase + (RandBelowBound - 1) = 999999

\* the highest code has been generated
C9_Witness ==
    /\ pairing_code = <<"9", "9", "9", "9", "9", "9">>
    /\ service_name = "adbee"

\* what stop() would leave of the state it is called in
StopFixpoint ==
    /\ CancelledPB = activePB
    /\ CancelledCB = activeCB
    /\ ClosedZc = zcOpen
    /\ pairing_browser = 0
    /\ connect_browser = 0
    /\ zeroconf = 0
    /\ ~running

\* C10: a stop step leaves the orchestrator Idle with no browser subscribed and no
\* connection open; taken while Idle it changes nothing; and the state it leaves is
\* one a further stop() changes nothing of (stop();stop() = stop()). stop() is
\* enabled whenever the caller's thread is not inside start.
C10_StopIdempotent ==
    [][stop =>
          /\ Idle' /\ zeroconf' = 0 /\ pairing_browser' = 0 /\ connect_browser' = 0
          /\ zcOpen' = {} /\ activePB' = {} /\ activeCB' = {}
          /\ Idle => UNCHANGED vars
          /\ StopFixpoint'
          /\ UNCHANGED <<service_name, pairing_code, on_paired, on_connected,
                         pairing_listener_instance, connect_listener_instance,
                         cl_connected, cl_last, mainVars, handlerVars>>]_vars

\* stopped after a session ran: Idle, the session's listener still referenced
C10_Witness ==
    /\ Idle /\ mpc = "idle" /\ nStarts >= 1
    /\ connect_listener_instance = nStarts
    /\ zeroconf = 0 /\ zcOpen = {}

\* nothing is subscribed and no connection is open
NothingActive == zcOpen = {} /\ activePB = {} /\ activeCB = {}

\* C11: when start() returns because adb was not found, the orchestrator is Idle,
\* with no browser registered and no discovery connection open, whether it was Idle
\* or Running when start() was called.
C11_NoAdbLeavesIdle ==
    [][(mpc = "adb" /\ mpc' = "idle") => Idle' /\ NothingActive']_vars

\* C12: when start() returns because the discovery facility raised (at Zeroconf(),
\* at the pairing ServiceBrowser or at the connect ServiceBrowser), the
\* orchestrator is Idle with no browser registered and no discovery connection
\* open; and after any calls at most one connection is open and at most one
\* browser per service type is subscribed.
C12_FailureLeavesIdle ==
    [][/\ (mpc \in {"zc", "pb", "cb"} /\ mpc' = "idle" /\ ~running') =>
             Idle' /\ NothingActive'
       /\ Cardinality(zcOpen') <= 1
       /\ Cardinality(activePB') <= 1
       /\ Cardinality(activeCB') <= 1]_vars

\* the event being handled was delivered by a browser that has been cancelled
\* since: its session is stopped or superseded
Stale ==
    /\ hpc # "idle"
    /\ \/ evKind = "pairing" /\ hself \notin activePB
       \/ evKind = "connect" /\ hself \notin activeCB

\* C13: a step of the delivery thread for an event whose session has been torn down
\* calls neither hook, starts no command of the opportunistic path, and does not go
\* on to read the last seen endpoint of the orchestrator's Connect Handler.
C13_StaleWorkAbandoned ==
    [][(Stale /\ hpc' # "idle") =>
          /\ Entries(evLog', "on_paired") = Entries(evLog, "on_paired")
          /\ ConnectedCalls(evLog') = ConnectedCalls(evLog)
          /\ evKind = "pairing" =>
                /\ Connects(evLog') = Connects(evLog)
                /\ hpc' \notin {"opp_read", "opp_wait"}]_vars

\* every attempt of the trigger ended without success: it returned a failure, timed
\* out, or could not be run
AllTriesFailed(outcomes) ==
    outcomes # {} /\ outcomes \subseteq {"failed", "raised"}

\* C14: a trigger all of whose attempts failed, timeouts and attempts that raised
\* included, has run `adb connect` exactly 3 times when its handling ends, with
\* the waits of its path between them: for a connect announcement and for the
\* opportunistic path alike.
C14_TimeoutIsRetried ==
    /\ (evKind = "connect" /\ hpc = "ret" /\ AllTriesFailed(evOutcomes)) =>
          evLog = RetryTrace(DeviceKey(hip, hport), ConnectSleep, 3)
    /\ (evKind = "pairing" /\ hpc = "ret" /\ "pair_ok" \in evOutcomes
          /\ AllTriesFailed(evOutcomes \ {"pair_ok"})) =>
          Attempts(evLog) = RetryTrace(DeviceKey(hip, hport), OppSleep, 3)

\* C15: once an attempt of the event being handled has succeeded, no step of that
\* handling runs `adb connect` again or waits for a retry, whether the caller's
\* on_connected is set or was never assigned: for a connect announcement and for
\* the opportunistic path alike.
C15_NoCommandAfterSuccess ==
    [][("ok" \in evOutcomes /\ hpc' # "idle") =>
          /\ Connects(evLog') = Connects(evLog)
          /\ Entries(evLog', "sleep") = Entries(evLog, "sleep")]_vars

\* the step calls the caller's on_connected
CallsOnConnected == Len(ConnectedCalls(evLog')) > Len(ConnectedCalls(evLog))

\* C16: with the caller's hook set, on_connected is called at most once per
\* "ip:port" within a session. An endpoint is in connected_devices of the session's
\* Connect Handler exactly when the connect-announcement path has connected it and
\* called on_connected for it, so no step calls on_connected for an endpoint that
\* is already in the set of the session the event belongs to (hself numbers the
\* session of the listener handling the event).
C16_OncePerEndpoint ==
    [][(CallsOnConnected /\ on_connected = "returns") =>
          evLog'[Len(evLog')].arg \notin cl_connected[hself]]_vars

\* the `adb pair` commands of a log
Pairs(log) == Entries(log, "pair")

\* C17: a pairing-type event has run `adb pair` exactly once, on the endpoint the
\* announcement resolved to, as soon as it is being handled, and never when the
\* service info or every address is missing; when the command failed, timed out or
\* could not be run, the handling ends there with nothing else run; no other event
\* runs `adb pair`.
C17_PairOncePerEvent ==
    /\ (evKind = "pairing" /\ Resolves(evInfo)) =>
          /\ Len(Pairs(evLog)) = 1
          /\ evLog[1].op = "pair"
          /\ evLog[1].arg = DeviceKey(ResolvedIp(evInfo), evInfo.port)
    /\ (evKind = "pairing" /\ ~Resolves(evInfo)) => evLog = <<>> /\ hpc = "ret"
    /\ evKind # "pairing" => Pairs(evLog) = <<>>
    /\ (evOutcomes \cap {"pair_failed", "pair_raised"} # {}) =>
          /\ hpc = "ret"
          /\ Len(evLog) = 1
          /\ Cardinality(evOutcomes) = 1

\* `adb pair` has timed out or could not be run: the event is over after that one
\* run
C17_Witness ==
    /\ evKind = "pairing" /\ hpc = "ret"
    /\ evOutcomes = {"pair_raised"}
    /\ Len(Pairs(evLog)) = 1

\* C18: the handling of a pairing-type event treats the run of `adb pair` as a
\* success exactly when the process exited with code 0 and printed "Successfully
\* paired" on its standard output: then, and only then, it calls the caller's
\* on_paired (when set) and goes on to the opportunistic path; after a non-zero
\* exit, an output without the marker, a marker on the error stream only, a
\* timeout or a failure to run the command, it calls no hook and runs no
\* `adb connect`, and the handling ends.
C18_SuccessIffZeroAndMarker ==
    evKind = "pairing" =>
        /\ "pair_ok" \notin evOutcomes =>
              /\ Entries(evLog, "on_paired") = <<>>
              /\ Connects(evLog) = <<>>
              /\ ConnectedCalls(evLog) = <<>>
              /\ hpc \in {"pair_wait", "ret"}
        /\ (evOutcomes \cap {"pair_failed", "pair_raised"} # {}) =>
              /\ "pair_ok" \notin evOutcomes
              /\ hpc = "ret"
        /\ "pair_ok" \in evOutcomes =>
              /\ Len(Entries(evLog, "on_paired")) = IF on_paired = "returns" THEN 1 ELSE 0
              /\ hpc \in {"opp_read", "opp_wait", "opp_sleep", "ret"}
        /\ hpc = "pair_wait" => evOutcomes = {}

\* `adb pair` has failed although the caller's hook is set and the orchestrator's
\* Connect Handler has a last seen endpoint: nothing was called, nothing was run
C18_Witness ==
    /\ evKind = "pairing" /\ hpc = "ret"
    /\ evOutcomes = {"pair_failed"}
    /\ on_paired = "returns"
    /\ HasLastKnown
    /\ Len(evLog) = 1

\* C19: in the handling of a pairing-type event, `adb pair` is the first thing run
\* and has completed with success before anything else is done; the call of the
\* caller's on_paired comes next, before the first `adb connect` of the
\* opportunistic path; with the hook set no `adb connect` is run without that call
\* having been made.
C19_PairedThenOpportunistic ==
    evKind = "pairing" =>
        /\ \A i \in 1..Len(evLog) :
              evLog[i].op \in {"on_paired", "connect", "sleep", "on_connected"} =>
                  /\ i > 1
                  /\ evLog[1].op = "pair"
                  /\ "pair_ok" \in evOutcomes
                  /\ hpc # "pair_wait"
        /\ \A i, j \in 1..Len(evLog) :
              (evLog[i].op = "on_paired" /\ evLog[j].op \in {"connect", "on_connected"})
                  => i < j
        /\ (Connects(evLog) # <<>> /\ on_paired = "returns") =>
              /\ evLog[2].op = "on_paired"
              /\ evLog[3].op = "connect"
        /\ (Connects(evLog) # <<>> /\ on_paired # "returns") => evLog[2].op = "connect"

\* the hook has been called and the first opportunistic `adb connect` is running
C19_Witness ==
    /\ evKind = "pairing" /\ hpc = "opp_wait"
    /\ on_paired = "returns"
    /\ Len(evLog) = 3
    /\ evLog[2].op = "on_paired"
    /\ evLog[3].op = "connect"

\* the endpoint a resolving announcement gives
Announced(info) == [ip |-> ResolvedIp(info), port |-> info.port]

\* while a resolving connect-type event is handled, and when its handling ends,
\* last_seen_service of its listener is the announced endpoint
SeenIsAnnounced ==
    (evKind = "connect" /\ Resolves(evInfo)) => cl_last[hself] = Announced(evInfo)

\* C20: from the moment a connect-type event that resolves to (ip, port) is being
\* handled, last_seen_service of its listener is (ip, port), also when the event is
\* skipped as already connected and when every attempt fails; a connect-type event
\* with no service info or no address changes no last_seen_service; and a
\* listener's last_seen_service changes in no other way (it goes with a listener
\* that is dropped), so it is always the latest resolving connect announcement the
\* listener was given.
C20_LastSeenIsLatest ==
    /\ []SeenIsAnnounced
    /\ [][/\ (hpc = "idle" /\ evKind' = "connect" /\ ~Resolves(evInfo')) =>
                UNCHANGED cl_last
          /\ \A l \in Ids :
                cl_last'[l] # cl_last[l] =>
                    \/ /\ hpc = "idle" /\ evKind' = "connect" /\ hself' = l
                       /\ Resolves(evInfo')
                       /\ cl_last'[l] = Announced(evInfo')
                    \/ /\ cl_last'[l] = NoEndpoint
                       /\ l \notin activeCB'
                       /\ ~(evKind' = "connect" /\ hself' = l)]_vars

\* an announcement of an endpoint that is already connected has been skipped, and
\* recorded all the same
C20_Witness ==
    /\ evKind = "connect" /\ hpc = "ret"
    /\ Resolves(evInfo)
    /\ AlreadyConnected(hself, DeviceKey(hip, hport))
    /\ evLog = <<>>
    /\ cl_last[hself] = Announced(evInfo)
    /\ Cardinality(cl_connected[hself]) = 2

----------------------------------------------------------------------------
(* Properties of the Connect Handler's fields *)

\* a listener's session: it is registered before and after the step
InSession(l) == l \in activeCB /\ l \in activeCB'

\* the step is a successful attempt of the connect event handled by listener l for
\* the endpoint key
SucceedsFor(l, key) ==
    /\ evKind = "connect" /\ hpc = "conn_wait" /\ hself = l
    /\ key = DeviceKey(hip, hport)
    /\ evLog[Len(evLog)] = LogConnect(key)
    /\ "ok" \in evOutcomes'

\* start() returns having set _running
StartSucceeds == mpc = "cb" /\ mpc' = "idle" /\ running'

\* a connect event that gave up after its third failed attempt
GaveUp ==
    /\ evKind = "connect" /\ hpc = "ret"
    /\ evOutcomes = {"failed"}
    /\ Len(Connects(evLog)) = ConnectMaxRetries

\* C21: within one session ConnectedEndpointSet only grows: an endpoint enters it
\* only by a successful connect attempt for exactly that endpoint, no step removes
\* an entry of a registered listener (remove_service and update_service change
\* nothing at all), a connect event whose 3 attempts all fail ends with its
\* endpoint not in the set and has changed nothing in it, and every start() that
\* succeeds leaves a Connect Handler that no earlier start() made, with an empty
\* set and no last seen endpoint.
C21_SetOnlyGrows ==
    /\ [](GaveUp => DeviceKey(hip, hport) \notin cl_connected[hself])
    /\ [][/\ \A l \in Ids :
                /\ InSession(l) => cl_connected[l] \subseteq cl_connected'[l]
                /\ \A key \in cl_connected'[l] \ cl_connected[l] : SucceedsFor(l, key)
          /\ (hpc = "conn_wait" /\ "ok" \notin evOutcomes') =>
                cl_connected'[hself] = cl_connected[hself]
          /\ (connect_remove_service \/ connect_update_service
                \/ pairing_remove_service \/ pairing_update_service) =>
                UNCHANGED <<cl_connected, cl_last>>
          /\ StartSucceeds =>
                /\ connect_listener_instance' # connect_listener_instance
                /\ connect_listener_instance' \notin activeCB
                /\ connect_listener_instance' \in activeCB'
                /\ cl_connected'[connect_listener_instance'] = {}
                /\ cl_last'[connect_listener_instance'] = NoEndpoint]_vars

\* the second session's Connect Handler gave up on one endpoint after three failed
\* attempts while it holds another endpoint it connected before
C21_Witness ==
    /\ GaveUp
    /\ hself = 2 /\ connect_listener_instance = 2 /\ running
    /\ Cardinality(cl_connected[hself]) = 1
    /\ DeviceKey(hip, hport) \notin cl_connected[hself]

\* the fields of Connect Handler l
Fields(l) == <<cl_connected[l], cl_last[l]>>

\* a step of the delivery thread inside, into or out of a pairing event: the
\* Pairing Handler and the opportunistic path it calls
PairingStep == hpc' # hpc /\ (evKind = "pairing" \/ evKind' = "pairing")

\* a step of the delivery thread inside or into the handling of a connect-type
\* add-event by listener l
ConnectStepOf(l) ==
    /\ evKind' = "connect" /\ hself' = l
    /\ hpc \in {"idle", "conn_wait"}

\* C22: connected_devices and last_seen_service are written only by the Connect
\* Handler's own handling of connect-type add-events: a step of the Pairing Handler
\* or of the opportunistic path (whether it succeeds or fails), generate_credentials
\* and stop() leave both fields of the current Connect Handler as they are, and
\* whatever step changes a field of a listener that is current or registered is a
\* step of that listener's handling of a connect-type add-event.
C22_OnlyOwnerWrites ==
    [][/\ (PairingStep \/ generate_credentials \/ stop) =>
             \A l \in Ids : l = connect_listener_instance => Fields(l)' = Fields(l)
       /\ \A l \in Ids :
             (Fields(l)' # Fields(l) /\ (l = connect_listener_instance' \/ l \in activeCB'))
                => ConnectStepOf(l)]_vars

\* the opportunistic path has connected to the last seen endpoint and called the
\* hook, and the endpoint is still not in the current Connect Handler's set
C22_Witness ==
    /\ evKind = "pairing" /\ hpc = "ret"
    /\ "ok" \in evOutcomes
    /\ ConnectedCalls(evLog) = <<LogOnConnected(DeviceKey(hip, hport))>>
    /\ connect_listener_instance # 0
    /\ cl_last[connect_listener_instance] = [ip |-> hip, port |-> hport]
    /\ DeviceKey(hip, hport) \notin cl_connected[connect_listener_instance]

----------------------------------------------------------------------------
(* Properties of the delivery thread *)

\* where the delivery thread can be while add_service has not raised
HandlerPoints ==
    {"idle", "pair_wait", "opp_read", "opp_wait", "opp_sleep", "conn_wait",
     "conn_sleep", "ret"}

\* the handling of the event has ended in an except clause, or at an unresolved or
\* missing service info
EndedEarly ==
    \/ evOutcomes \cap {"pair_raised", "pair_failed"} # {}
    \/ evKind = "connect" /\ "raised" \in evOutcomes
    \/ evKind = "connect" /\ "ok" \in evOutcomes /\ on_connected \in {"unset", "raises"}
    \/ evKind = "pairing" /\ "pair_ok" \in evOutcomes /\ on_paired = "raises"
    \/ evKind # "none" /\ ~Resolves(evInfo)

\* C23: no exception leaves add_service of either listener: whether the service
\* info is missing, no address resolves, the adb command fails, times out
\* (TimeoutExpired) or cannot be launched (OSError), or the caller's hook was never
\* assigned (AttributeError) or raises (an exception derived from Exception), the
\* delivery thread is at a point inside add_service or back in the facility, and
\* where an except clause (or a missing info) has ended the handling, add_service
\* is about to return.
C23_NothingEscapes ==
    /\ hpc \in HandlerPoints
    /\ EndedEarly => hpc = "ret"

\* a connect event whose attempt succeeded, whose hook was called and raised, and
\* whose add_service is about to return
C23_Witness ==
    /\ evKind = "connect" /\ hpc = "ret"
    /\ on_connected = "raises"
    /\ "ok" \in evOutcomes
    /\ ConnectedCalls(evLog) = <<LogOnConnected(DeviceKey(hip, hport))>>

\* add_service is running
Handling == hpc # "idle"

\* the commands an event may have run so far: at most ConnectMaxRetries
\* `adb connect` and no `adb pair` for a connect-type add-event, at most one
\* `adb pair` and OppMaxRetries `adb connect` after it for a pairing-type one
WithinBudget ==
    /\ evKind = "connect" =>
          /\ Len(Connects(evLog)) <= ConnectMaxRetries
          /\ Pairs(evLog) = <<>>
    /\ evKind = "pairing" =>
          /\ Len(Pairs(evLog)) <= 1
          /\ Len(Connects(evLog)) <= OppMaxRetries
          /\ Connects(evLog) # <<>> => evLog[1].op = "pair"
    /\ hattempt <= 3

\* C24: given that every adb command returns or times out, the handling of every
\* delivered event finishes (add_service returns), having run at most 3
\* `adb connect` for a connect-type add-event, and at most 1 `adb pair` followed by
\* at most 3 `adb connect` for a pairing-type add-event.
C24_HandlingFinishes ==
    /\ []WithinBudget
    /\ Handling ~> ~Handling

\* a pairing event that has run `adb pair` once and `adb connect` three times
\* and is about to return
C24_Witness ==
    /\ evKind = "pairing" /\ hpc = "ret"
    /\ Len(Pairs(evLog)) = 1
    /\ Len(Connects(evLog)) = OppMaxRetries

----------------------------------------------------------------------------
(* Properties of the window *)

\* a run of generate_new_pairing ends: its start() returns
PairingGenerated == mpc \in {"w_qr", "zc", "pb", "cb"} /\ mpc' = "idle"

\* the Pairing Handlers registered are at most the one of the discovery connection
\* the last run of generate_new_pairing opened
OnlyThisClick == activePB \subseteq ({zeroconf} \ {0})

\* the QR code and the Pairing Handler of the running session hold the same code
QrMatchesHandler ==
    /\ qr_data = QrPayload(ServiceLabel, pairing_code)
    /\ pairing_listener_instance \in activePB
    /\ pl_code[pairing_listener_instance] = QrCode(qr_data)

\* C25: after every run of generate_new_pairing (stop(), generate_credentials(),
\* start()), the pairing code read from the QR payload
\* "WIFI:T:ADB;S:<service_name>;P:<pairing_code>;;" is the code of the Pairing
\* Handler of the session that is Running afterwards, that handler is the only one
\* registered, and no Pairing Handler of an earlier run remains registered whether
\* or not the run ended Running.
C25_QrMatchesSession ==
    /\ [](mpc = "idle" => OnlyThisClick)
    /\ []((mpc = "idle" /\ Running) => QrMatchesHandler)
    /\ [][PairingGenerated =>
             /\ activePB' \subseteq (IF mpc = "w_qr" THEN {} ELSE {nStarts'})
             /\ Running' => /\ QrMatchesHandler'
                            /\ pairing_listener_instance' = nStarts'
                            /\ activePB' = {nStarts'}]_vars

\* the second run of generate_new_pairing has ended Running, with its six-digit
\* code in the QR payload and in the one registered Pairing Handler
C25_Witness ==
    /\ mpc = "idle" /\ Running
    /\ nStarts = 2
    /\ activePB = {2}
    /\ pl_code[2] = QrCode(qr_data)
    /\ Len(QrCode(qr_data)) = 6

====
